---- MODULE Spec2Model ----
(***************************************************************************)
(* tools/tcp_server_dump.py: a diagnostic TCP server.  It listens on a     *)
(* port, accepts one connection at a time, performs one recv of at most    *)
(* BUFSIZE bytes, writes the bytes to the data file (opened with "w"),     *)
(* prints them, closes the connection and, unless --single was given,      *)
(* accepts again.                                                          *)
(*                                                                         *)
(* The server is the script's single thread; pc is its position.  The      *)
(* environment is the clients (connect, send, close), the network (bytes   *)
(* of a stream arrive at the server's socket in order, in pieces) and the  *)
(* faults the operating system can raise (accept timeout, socket errors,   *)
(* file errors).                                                           *)
(***************************************************************************)
EXTENDS Integers, Sequences, FiniteSets, TLC

\* ---------------------------------------------------------------- constants
DEFAULT_TIMEOUT == 30
DEFAULT_DELAY == 0
BUFSIZE == 1024
\* serv.listen(5)
BACKLOG == 5

\* ------------------------------------------------------------------- bounds
\* connection attempts made by clients during one run of the server
MaxConns == 2
\* would-block results the model lets one read_tcp call see
MaxRetries == 2
\* bytes beyond BUFSIZE that a client may send on one connection
MaxOver == 1
\* length of a short client message that the network may split
ShortLen == 2
\* length of the data file's content left by a prior run
PriorLen == 3
\* a non-default --delay value (seconds)
SomeDelay == 1

VARIABLES
    argv,       \* command line: [single, timeout, delay, o]
    opts,       \* the result of parseArgs(): [single, timeout, delay]
    pc,         \* the script's position
    fault,      \* the unhandled exception that ended the process, or "none"
    listening,  \* serv is bound and listening
    backlog,    \* connections completed by the OS and not yet accepted
    attempts,   \* the outcomes of the clients' connection attempts, in order
    accepted,   \* connections returned by serv.accept() so far
    conn,       \* the most recently accepted connection
    data,       \* run_server's local: the value read_tcp returned
    retries,    \* would-block results seen by the current read_tcp call
    file,       \* the data file on disk: [exists, content]
    FILE,       \* the open file object: [open, buf]
    stdout,     \* the lines printed so far
    sleeps,     \* the durations of the time.sleep calls made so far
    payloads    \* history: the payloads of the completed connections, in order

vars == <<argv, opts, pc, fault, listening, backlog, attempts, accepted,
          conn, data, retries, file, FILE, stdout, sleeps, payloads>>

\* ------------------------------------------------------------------ helpers
Min(a, b) == IF a < b THEN a ELSE b

Last(s) == s[Len(s)]

IsPrefix(s, t) == Len(s) <= Len(t) /\ s = SubSeq(t, 1, Len(s))

\* The first n bytes a client sends on connection id.  Connections differ in
\* their content and every position of a stream is told from its neighbours.
Stream(id, n) == [i \in 1..n |-> (16 * id + i) % 256]

\* The stream lengths at which a client's send call or a network delivery ends.
SendPoints == {1, ShortLen, BUFSIZE} \cup ((BUFSIZE + 1)..(BUFSIZE + MaxOver))

Timeouts == {0, DEFAULT_TIMEOUT}
Delays == {DEFAULT_DELAY, SomeDelay}

NoFile == [exists |-> FALSE, content |-> <<>>]
PriorFile == [exists |-> TRUE, content |-> Stream(0, PriorLen)]

NoConn == [id |-> 0, st |-> "none", sent |-> 0, arrived |-> 0, cclosed |-> FALSE,
           fileAtAccept |-> NoFile]

Line(text, bytes) == [text |-> text, data |-> bytes]

\* The positions of run_server after read_tcp has returned.
PostRead == {"open", "write", "fclose", "cclose"}

\* recv without the size limit: everything buffered is returned.
recvUnbounded(avail, n) == avail

\* conn.recv(n) on a socket whose receive buffer holds avail: at most n bytes
\* from the front of the buffer.
recv(avail, n) == SubSeq(avail, 1, Min(n, Len(avail)))

\* recv returns: bytes are buffered, or the client's end-of-stream has arrived.
Readable == conn.arrived > 0 \/ (conn.cclosed /\ conn.arrived = conn.sent)

\* The process ends: the OS closes its sockets and resets pending connections.
Terminate(why, at) ==
    /\ pc' = at
    /\ fault' = why
    /\ listening' = FALSE
    /\ backlog' = 0
    /\ conn' = IF conn.st = "open" THEN [conn EXCEPT !.st = "aborted"] ELSE conn

\* --------------------------------------------------------------------- Init
Init ==
    /\ argv \in [single : BOOLEAN, timeout : Timeouts, delay : Delays, o : BOOLEAN]
    /\ opts = [single |-> FALSE, timeout |-> DEFAULT_TIMEOUT, delay |-> DEFAULT_DELAY]
    /\ pc = "start"
    /\ fault = "none"
    /\ listening = FALSE
    /\ backlog = 0
    /\ attempts = <<>>
    /\ accepted = 0
    /\ conn = NoConn
    /\ data = <<>>
    /\ retries = 0
    /\ file \in {NoFile, PriorFile}
    /\ FILE = [open |-> FALSE, buf |-> <<>>]
    /\ stdout = <<>>
    /\ sleeps = <<>>
    /\ payloads = <<>>

\* ------------------------------------------------------------------- server
\* parseArgs() defines -f, -s, -p, -t and -d only: any other option makes
\* argparse print the usage and exit with status 2.
parseArgs ==
    /\ pc = "start"
    /\ argv.o
    /\ pc' = "usage"
    /\ UNCHANGED <<argv, opts, fault, listening, backlog, attempts, accepted,
                   conn, data, retries, file, FILE, stdout, sleeps, payloads>>

\* Main with a timeout of 0 replaced by the default ("timeout or DEFAULT_TIMEOUT").
MainDefaultingTimeout ==
    /\ pc = "start"
    /\ ~argv.o
    /\ opts' = [single |-> argv.single, delay |-> argv.delay,
                timeout |-> IF argv.timeout = 0 THEN DEFAULT_TIMEOUT ELSE argv.timeout]
    /\ listening' = TRUE
    /\ stdout' = stdout \o <<Line("listening", <<>>),
                             Line("ready for connections", <<>>)>>
    /\ pc' = "accept"
    /\ UNCHANGED <<argv, fault, backlog, attempts, accepted, conn, data,
                   retries, file, FILE, sleeps, payloads>>

\* parseArgs(), socket(), setsockopt(), bind(), listen(5), settimeout(timeout)
Main ==
    /\ pc = "start"
    /\ ~argv.o
    /\ opts' = [single |-> argv.single, timeout |-> argv.timeout, delay |-> argv.delay]
    /\ listening' = TRUE
    /\ stdout' = stdout \o <<Line("listening", <<>>),
                             Line("ready for connections", <<>>)>>
    /\ pc' = "accept"
    /\ UNCHANGED <<argv, fault, backlog, attempts, accepted, conn, data,
                   retries, file, FILE, sleeps, payloads>>

\* conn,addr = serv.accept(); print; read_tcp is entered (its print)
Accept ==
    /\ pc = "accept"
    /\ backlog > 0
    /\ backlog' = backlog - 1
    /\ accepted' = accepted + 1
    /\ conn' = [NoConn EXCEPT !.id = accepted + 1, !.st = "open", !.fileAtAccept = file]
    /\ retries' = 0
    /\ stdout' = stdout \o <<Line("client connected", <<>>),
                             Line("read data from client", <<>>)>>
    /\ pc' = "read"
    /\ UNCHANGED <<argv, opts, fault, listening, attempts, data, file, FILE,
                   sleeps, payloads>>

\* AcceptTimeout with the timeout also applied to the accepted socket's recv.
AcceptTimeoutAnywhere ==
    /\ pc \in {"accept", "read"}
    /\ opts.timeout # 0
    /\ pc = "accept" => backlog = 0
    /\ Terminate("AcceptTimeout", "fault")
    /\ UNCHANGED <<argv, opts, attempts, accepted, data, retries, file, FILE,
                   stdout, sleeps, payloads>>

\* AcceptTimeout with the data file opened ("w") before accept.
AcceptTimeoutTruncating ==
    /\ pc = "accept"
    /\ opts.timeout # 0
    /\ backlog = 0
    /\ Terminate("AcceptTimeout", "fault")
    /\ file' = [exists |-> TRUE, content |-> <<>>]
    /\ UNCHANGED <<argv, opts, attempts, accepted, data, retries, FILE,
                   stdout, sleeps, payloads>>

\* serv.accept() raises socket.timeout: nothing in the script catches it.
AcceptTimeout ==
    /\ pc = "accept"
    /\ opts.timeout # 0
    /\ backlog = 0
    /\ Terminate("AcceptTimeout", "fault")
    /\ UNCHANGED <<argv, opts, attempts, accepted, data, retries, file, FILE,
                   stdout, sleeps, payloads>>

\* Recv that returns only when it got bytes ("if data: return data").
RecvDataOnly ==
    /\ pc = "read"
    /\ conn.arrived > 0
    /\ data' = recv(Stream(conn.id, conn.arrived), BUFSIZE)
    /\ pc' = "open"
    /\ UNCHANGED <<argv, opts, fault, listening, backlog, attempts, accepted,
                   conn, retries, file, FILE, stdout, sleeps, payloads>>

\* data = conn.recv(BUFSIZE); return data
Recv ==
    /\ pc = "read"
    /\ Readable
    /\ data' = recv(Stream(conn.id, conn.arrived), BUFSIZE)
    /\ pc' = "open"
    /\ UNCHANGED <<argv, opts, fault, listening, backlog, attempts, accepted,
                   conn, retries, file, FILE, stdout, sleeps, payloads>>

\* RecvWouldBlock with EAGAIN re-raised like any other errno.
RecvWouldBlockFatal ==
    /\ pc = "read"
    /\ ~Readable
    /\ retries < MaxRetries
    /\ retries' = retries + 1
    /\ Terminate("SocketError", "fault")
    /\ UNCHANGED <<argv, opts, attempts, accepted, data, file, FILE, stdout,
                   sleeps, payloads>>

\* conn.recv raises socket.error with errno EAGAIN: pass, and the loop repeats.
RecvWouldBlock ==
    /\ pc = "read"
    /\ ~Readable
    /\ retries < MaxRetries
    /\ retries' = retries + 1
    /\ UNCHANGED <<argv, opts, pc, fault, listening, backlog, attempts,
                   accepted, conn, data, file, FILE, stdout, sleeps, payloads>>

\* RecvError caught at the top level, the loop going on to the next accept.
RecvErrorResuming ==
    /\ pc = "read"
    /\ fault' = "SocketError"
    /\ pc' = "accept"
    /\ conn' = [conn EXCEPT !.st = "aborted"]
    /\ UNCHANGED <<argv, opts, listening, backlog, attempts, accepted, data,
                   retries, file, FILE, stdout, sleeps, payloads>>

\* conn.recv raises socket.error with another errno: raise e.
RecvError ==
    /\ pc = "read"
    /\ Terminate("SocketError", "fault")
    /\ UNCHANGED <<argv, opts, attempts, accepted, data, retries, file, FILE,
                   stdout, sleeps, payloads>>

\* Open skipped when nothing was read ("if data:" around the dump).
OpenUnlessEmpty ==
    /\ pc = "open"
    /\ file' = IF data = <<>> THEN file ELSE [exists |-> TRUE, content |-> <<>>]
    /\ FILE' = [open |-> TRUE, buf |-> <<>>]
    /\ pc' = "write"
    /\ UNCHANGED <<argv, opts, fault, listening, backlog, attempts, accepted,
                   conn, data, retries, stdout, sleeps, payloads>>

\* Open with mode "a": the file's content is kept.
OpenAppending ==
    /\ pc = "open"
    /\ file' = [exists |-> TRUE, content |-> file.content]
    /\ FILE' = [open |-> TRUE, buf |-> <<>>]
    /\ pc' = "write"
    /\ UNCHANGED <<argv, opts, fault, listening, backlog, attempts, accepted,
                   conn, data, retries, stdout, sleeps, payloads>>

\* FILE = open(opts.datafile, "w"): the file is created or truncated.
Open ==
    /\ pc = "open"
    /\ file' = [exists |-> TRUE, content |-> <<>>]
    /\ FILE' = [open |-> TRUE, buf |-> <<>>]
    /\ pc' = "write"
    /\ UNCHANGED <<argv, opts, fault, listening, backlog, attempts, accepted,
                   conn, data, retries, stdout, sleeps, payloads>>

\* open raises IOError: the file is as it was.
OpenError ==
    /\ pc = "open"
    /\ Terminate("FileError", "fault")
    /\ UNCHANGED <<argv, opts, attempts, accepted, data, retries, file, FILE,
                   stdout, sleeps, payloads>>

\* Write without the FILE.write(data) call.
WriteNothing ==
    /\ pc = "write"
    /\ stdout' = Append(stdout, Line("Write: ", data))
    /\ pc' = "fclose"
    /\ UNCHANGED <<argv, opts, fault, listening, backlog, attempts, accepted,
                   conn, data, retries, file, FILE, sleeps, payloads>>

\* FILE.write(data), which fills the file object's buffer; print "Write: " + data
Write ==
    /\ pc = "write"
    /\ FILE' = [FILE EXCEPT !.buf = FILE.buf \o data]
    /\ stdout' = Append(stdout, Line("Write: ", data))
    /\ pc' = "fclose"
    /\ UNCHANGED <<argv, opts, fault, listening, backlog, attempts, accepted,
                   conn, data, retries, file, sleeps, payloads>>

\* FileClose that drops the buffer instead of flushing it.
FileCloseUnflushed ==
    /\ pc = "fclose"
    /\ FILE' = [open |-> FALSE, buf |-> <<>>]
    /\ pc' = "cclose"
    /\ UNCHANGED <<argv, opts, fault, listening, backlog, attempts, accepted,
                   conn, data, retries, file, stdout, sleeps, payloads>>

\* FILE.close(): the buffer is flushed to the file.
FileClose ==
    /\ pc = "fclose"
    /\ file' = [file EXCEPT !.content = file.content \o FILE.buf]
    /\ FILE' = [open |-> FALSE, buf |-> <<>>]
    /\ pc' = "cclose"
    /\ UNCHANGED <<argv, opts, fault, listening, backlog, attempts, accepted,
                   conn, data, retries, stdout, sleeps, payloads>>

\* FILE.close() raises IOError: the flush failed and the file stays truncated.
FileCloseError ==
    /\ pc = "fclose"
    /\ Terminate("FileError", "fault")
    /\ FILE' = [open |-> FALSE, buf |-> <<>>]
    /\ UNCHANGED <<argv, opts, attempts, accepted, data, retries, file,
                   stdout, sleeps, payloads>>

\* CloseConn with the test of opts.single inverted.
CloseConnInverted ==
    /\ pc = "cclose"
    /\ stdout' = Append(stdout, Line("closing connection", <<>>))
    /\ payloads' = Append(payloads, data)
    /\ IF ~opts.single
         THEN /\ pc' = "exit"
              /\ listening' = FALSE
              /\ backlog' = 0
         ELSE /\ pc' = "accept"
              /\ UNCHANGED <<listening, backlog>>
    /\ conn' = [conn EXCEPT !.st = "closed"]
    /\ UNCHANGED <<argv, opts, fault, attempts, accepted, data, retries, file,
                   FILE, sleeps>>

\* CloseConn without the conn.close() call.
CloseConnLeavingOpen ==
    /\ pc = "cclose"
    /\ stdout' = Append(stdout, Line("closing connection", <<>>))
    /\ payloads' = Append(payloads, data)
    /\ IF opts.single
         THEN /\ pc' = "exit"
              /\ listening' = FALSE
              /\ backlog' = 0
         ELSE /\ pc' = "accept"
              /\ UNCHANGED <<listening, backlog>>
    /\ UNCHANGED <<argv, opts, fault, attempts, accepted, conn, data, retries, file,
                   FILE, sleeps>>

\* CloseConn without the test of opts.single.
CloseConnLooping ==
    /\ pc = "cclose"
    /\ stdout' = Append(stdout, Line("closing connection", <<>>))
    /\ conn' = [conn EXCEPT !.st = "closed"]
    /\ payloads' = Append(payloads, data)
    /\ pc' = "accept"
    /\ UNCHANGED <<argv, opts, fault, listening, backlog, attempts, accepted,
                   data, retries, file, FILE, sleeps>>

\* print "closing connection"; conn.close(); run_server returns;
\* if opts.single: break, and the script ends.
CloseConn ==
    /\ pc = "cclose"
    /\ stdout' = Append(stdout, Line("closing connection", <<>>))
    /\ payloads' = Append(payloads, data)
    /\ IF opts.single
         THEN /\ pc' = "exit"
              /\ listening' = FALSE
              /\ backlog' = 0
         ELSE /\ pc' = "accept"
              /\ UNCHANGED <<listening, backlog>>
    /\ conn' = [conn EXCEPT !.st = "closed"]
    /\ UNCHANGED <<argv, opts, fault, attempts, accepted, data, retries, file,
                   FILE, sleeps>>

\* -------------------------------------------------------------- environment
\* A client connects while serv listens: the OS completes the handshake and
\* queues the connection.
Connect ==
    /\ Len(attempts) < MaxConns
    /\ listening
    /\ backlog < BACKLOG
    /\ attempts' = Append(attempts, "queued")
    /\ backlog' = backlog + 1
    /\ UNCHANGED <<argv, opts, pc, fault, listening, accepted, conn, data,
                   retries, file, FILE, stdout, sleeps, payloads>>

\* A client connects while nothing listens on the port: connection refused.
ConnectRefused ==
    /\ Len(attempts) < MaxConns
    /\ ~listening
    /\ attempts' = Append(attempts, "refused")
    /\ UNCHANGED <<argv, opts, pc, fault, listening, backlog, accepted, conn, data,
                   retries, file, FILE, stdout, sleeps, payloads>>

\* The client of the accepted connection sends up to stream position p.  (What
\* a client sends before accept returns reaches the server's recv exactly as
\* what it sends between accept and recv, so a queued connection stays idle.)
Send(p) ==
    /\ conn.st = "open"
    /\ ~conn.cclosed
    /\ p > conn.sent
    /\ conn' = [conn EXCEPT !.sent = p]
    /\ UNCHANGED <<argv, opts, pc, fault, listening, backlog, attempts,
                   accepted, data, retries, file, FILE, stdout, sleeps, payloads>>

\* The network delivers the sent bytes up to stream position p.
Arrive(p) ==
    /\ conn.st = "open"
    /\ conn.arrived < p
    /\ p <= conn.sent
    /\ conn' = [conn EXCEPT !.arrived = p]
    /\ UNCHANGED <<argv, opts, pc, fault, listening, backlog, attempts,
                   accepted, data, retries, file, FILE, stdout, sleeps, payloads>>

\* The client closes its side; the end-of-stream follows the last byte.
ClientClose ==
    /\ conn.st = "open"
    /\ ~conn.cclosed
    /\ conn' = [conn EXCEPT !.cclosed = TRUE]
    /\ UNCHANGED <<argv, opts, pc, fault, listening, backlog, attempts,
                   accepted, data, retries, file, FILE, stdout, sleeps, payloads>>

Next ==
    \/ parseArgs
    \/ Main
    \/ Accept
    \/ AcceptTimeout
    \/ Recv
    \/ RecvWouldBlock
    \/ RecvError
    \/ Open
    \/ OpenError
    \/ Write
    \/ FileClose
    \/ FileCloseError
    \/ CloseConn
    \/ Connect
    \/ ConnectRefused
    \/ \E p \in SendPoints : Send(p)
    \/ \E p \in SendPoints : Arrive(p)
    \/ ClientClose

Spec == Init /\ [][Next]_vars

\* A run with --single.
InitSingle == Init /\ argv.single

\* The script's thread is always scheduled: whenever its next statement can
\* complete, it does.  Clients, the network and faults are under no obligation.
Fairness ==
    /\ WF_vars(Accept)
    /\ WF_vars(Recv)
    /\ WF_vars(Open)
    /\ WF_vars(Write)
    /\ WF_vars(FileClose)
    /\ WF_vars(CloseConn)

FairSpec == InitSingle /\ [][Next]_vars /\ Fairness

\* ------------------------------------------------------------------- claims
\* The file holds exactly payload p.
FileHolds(p) == file = [exists |-> TRUE, content |-> p]

\* The server has handed its last accepted connection back: it waits in accept
\* or the script has ended.
Handled == conn.st = "closed"

\* C1: a client sends B, 0 <= Len(B) <= BUFSIZE, on one connection and closes
\* it; once the server has handled the connection the file holds exactly B,
\* however the bytes arrived relative to the server's read.
C1_RoundTrip ==
    (Handled /\ conn.cclosed /\ conn.sent <= BUFSIZE)
        => FileHolds(Stream(conn.id, conn.sent))

\* C2: read_tcp returns only after the client has closed its side, and what
\* it returns is every byte the client sent on the connection.
C2_ReadDrain ==
    pc \in PostRead => (conn.cclosed /\ data = Stream(conn.id, conn.sent))

C4_TimeoutKeepsFile ==
    [][/\ pc = "accept" => file' = file
       /\ fault' = "AcceptTimeout" =>
             /\ pc' = "fault"
             /\ ~listening'
             /\ file' = file
             /\ ~FILE'.open
             /\ accepted' = accepted
             /\ fault # "AcceptTimeout" =>
                   (pc = "accept" /\ opts.timeout # 0 /\ backlog = 0)]_vars

C4_Witness ==
    /\ fault = "AcceptTimeout"
    /\ Len(payloads) >= 1
    /\ Len(Last(payloads)) > 0
    /\ FileHolds(Last(payloads))

\* C5: with --single the server accepts one connection at most; once that
\* connection is read, dumped and closed the script has ended and nothing
\* listens, so every later connection attempt is refused.
C5_SingleShot ==
    /\ [](opts.single =>
            /\ accepted <= 1
            /\ Len(payloads) >= 1 =>
                  (pc = "exit" /\ ~listening /\ backlog = 0 /\ Handled))
    /\ [][(opts.single /\ Len(payloads) >= 1 /\ attempts' # attempts) =>
             (attempts' = Append(attempts, "refused") /\ accepted' = accepted)]_vars

C5_Witness ==
    /\ opts.single
    /\ pc = "exit"
    /\ Len(payloads) = 1
    /\ attempts = <<"queued", "refused">>

\* C6: without --single, closing connection N+1 takes the server straight
\* back to accept with the file holding exactly connection N+1's payload,
\* whatever the file held before.
C6_Overwrite ==
    [][(~opts.single /\ pc = "cclose" /\ pc' # "cclose") =>
          /\ pc' = "accept"
          /\ listening'
          /\ conn'.st = "closed"
          /\ payloads' = Append(payloads, data)
          /\ file' = [exists |-> TRUE, content |-> data]]_vars

C6_Witness ==
    /\ ~opts.single
    /\ pc = "accept"
    /\ Len(payloads) = 2
    /\ Len(payloads[2]) < Len(payloads[1])
    /\ FileHolds(payloads[2])

\* C7 as stated: in every state after a connection has completed, the file
\* holds the payload of the most recently completed connection.
C7_FileAlwaysLast ==
    Len(payloads) >= 1 => FileHolds(Last(payloads))

\* C7 as amended: after a connection has completed, the file holds the payload
\* of the most recently completed connection whenever the server waits in
\* accept, is in read_tcp or about to open the file for a later connection,
\* has ended normally, or has ended with AcceptTimeout or SocketError.
C7_FileLastAtRest ==
    (/\ Len(payloads) >= 1
     /\ \/ pc \in {"accept", "read", "open", "exit"}
        \/ fault \in {"AcceptTimeout", "SocketError"})
        => FileHolds(Last(payloads))

C7_Witness ==
    /\ pc = "read"
    /\ Len(payloads) = 1
    /\ Len(payloads[1]) = ShortLen
    /\ conn.id = 2
    /\ conn.sent > 0

IsWrite(l) == l.text = "Write: "

\* The payloads printed on standard output, in order.
Echoed ==
    LET w == SelectSeq(stdout, IsWrite) IN [i \in 1..Len(w) |-> w[i].data]

\* C8: with -o the captured bytes of every handled connection are printed
\* once; without -o no captured bytes are printed.
C8_ConsoleEcho ==
    IF argv.o
      THEN (pc \in {"accept", "exit"}) => Echoed = payloads
      ELSE Echoed = <<>>

\* C9: with a non-zero delay, each connection's read is preceded by one sleep
\* of that duration; with a zero delay the server never sleeps.
C9_DelayBeforeRead ==
    pc \in PostRead =>
        IF opts.delay # 0
          THEN sleeps = [i \in 1..accepted |-> opts.delay]
          ELSE sleeps = <<>>

\* C10: a socket error in read_tcp other than would-block ends the process:
\* the read is not retried, the connection is not dumped (the file is as it
\* was when the connection was accepted) and nothing is accepted afterwards.
C10_SocketErrorFatal ==
    /\ [](fault = "SocketError" =>
            /\ pc = "fault"
            /\ ~listening
            /\ conn.st = "aborted"
            /\ file = conn.fileAtAccept
            /\ ~FILE.open
            /\ Len(payloads) = accepted - 1)
    /\ [][fault = "SocketError" =>
             /\ pc' = pc
             /\ accepted' = accepted
             /\ retries' = retries
             /\ data' = data
             /\ file' = file
             /\ payloads' = payloads]_vars

C10_Witness ==
    /\ fault = "SocketError"
    /\ ~opts.single
    /\ retries > 0
    /\ Len(payloads) = 1
    /\ Len(payloads[1]) > 0
    /\ FileHolds(payloads[1])

\* The exceptions that end the process.
Faults == {"AcceptTimeout", "SocketError", "FileError"}

\* The positions at which the script is running.
Running == {"accept", "read"} \cup PostRead

\* C11: with --timeout 0 no timeout is set on serv: AcceptTimeout never
\* happens, and while no connection is pending the server stays in accept.
C11_NoTimeout ==
    /\ [](argv.timeout = 0 => fault # "AcceptTimeout")
    /\ [][(argv.timeout = 0 /\ pc = "accept" /\ backlog = 0) =>
             (pc' = "accept" /\ listening' /\ fault' = "none")]_vars

C11_Witness ==
    /\ argv.timeout = 0
    /\ pc = "accept"
    /\ backlog = 0
    /\ Len(attempts) = MaxConns
    /\ Len(payloads) = MaxConns

\* C12: without --single every completed connection takes the server back to
\* accept, and once it listens the process ends only by AcceptTimeout,
\* SocketError or FileError; the script ends normally only with --single and
\* only after exactly one completed connection.
C12_LoopsForever ==
    /\ [](pc = "exit" =>
            (opts.single /\ Len(payloads) = 1 /\ accepted = 1 /\ fault = "none"))
    /\ []((~opts.single /\ pc \notin {"start", "usage"}) =>
            \/ pc \in Running /\ fault = "none" /\ listening
            \/ pc = "fault" /\ fault \in Faults)
    /\ [][(~opts.single /\ Len(payloads') > Len(payloads)) =>
             (pc' = "accept" /\ listening' /\ fault' = "none")]_vars

C12_Witness ==
    /\ ~opts.single
    /\ pc = "accept"
    /\ fault = "none"
    /\ listening
    /\ Len(payloads) = 2
    /\ opts.timeout # 0

C14_OneAtATime ==
    /\ accepted - Len(payloads) \in {0, 1}
    /\ conn.st = "open" => (pc \in {"read"} \cup PostRead /\ accepted = Len(payloads) + 1)
    /\ pc = "accept" => (conn.st # "open" /\ (conn.st = "closed" => accepted = Len(payloads)))
    /\ conn.st \in {"none", "closed"} => accepted = Len(payloads)

C14_Witness ==
    /\ pc = "read"
    /\ conn.st = "open"
    /\ conn.id = 1
    /\ backlog = 1
    /\ attempts = <<"queued", "queued">>

\* What the script has printed once it has completed the connections whose
\* payloads are ps: its start-up lines, then four lines per connection.
RECURSIVE ExpectedLog(_)
ExpectedLog(ps) ==
    IF ps = <<>>
      THEN <<Line("listening", <<>>), Line("ready for connections", <<>>)>>
      ELSE ExpectedLog(SubSeq(ps, 1, Len(ps) - 1)) \o
           <<Line("client connected", <<>>), Line("read data from client", <<>>),
             Line("Write: ", Last(ps)), Line("closing connection", <<>>)>>

\* C15: while no fault has occurred each accepted connection goes through
\* accept, read_tcp, Dump (open with truncation, write, close) and the close
\* of the connection in that order: the file holds the connection's payload
\* before the connection is closed, and there is one Dump and one close for
\* each accepted connection.
C15_StepOrder ==
    fault = "none" =>
        /\ pc \in {"read", "open", "write"} =>
              /\ conn.st = "open"
              /\ Len(Echoed) = accepted - 1
              /\ Len(payloads) = accepted - 1
        /\ pc \in {"fclose", "cclose"} =>
              /\ conn.st = "open"
              /\ Len(Echoed) = accepted
              /\ Last(Echoed) = data
              /\ Len(payloads) = accepted - 1
        /\ pc \in {"accept", "exit"} =>
              /\ conn.st # "open"
              /\ Len(payloads) = accepted
              /\ Echoed = payloads
              /\ stdout = ExpectedLog(payloads)
        /\ FILE.open <=> pc \in {"write", "fclose"}
        /\ pc \in {"write", "fclose"} => FileHolds(<<>>)
        /\ pc = "fclose" => FILE.buf = data
        /\ pc = "cclose" => FileHolds(data)
        /\ Handled => (FileHolds(data) /\ Last(payloads) = data)

C15_Witness ==
    /\ fault = "none"
    /\ pc = "cclose"
    /\ conn.st = "open"
    /\ accepted = 2
    /\ Len(data) = 1
    /\ FileHolds(data)
    /\ Len(payloads[1]) = BUFSIZE

\* C16: a client that closes without sending gives the empty payload, which
\* is dumped like any other: once the connection is handled the file exists
\* and is empty, the connection counts as completed and, with --single, the
\* script has ended.
C16_EmptyPayload ==
    /\ (pc \in PostRead /\ conn.sent = 0) => (data = <<>> /\ conn.cclosed)
    /\ (Handled /\ conn.sent = 0) =>
          /\ FileHolds(<<>>)
          /\ Len(payloads) = accepted
          /\ Last(payloads) = <<>>
          /\ opts.single => (pc = "exit" /\ ~listening)

C16_Witness ==
    /\ Handled
    /\ conn.sent = 0
    /\ conn.fileAtAccept = PriorFile
    /\ FileHolds(<<>>)
    /\ opts.single
    /\ pc = "exit"

\* The client of the accepted connection does nothing in this step.
ClientIdle ==
    /\ conn'.sent = conn.sent
    /\ conn'.arrived = conn.arrived
    /\ conn'.cclosed = conn.cclosed

\* C17: AcceptTimeout happens only in accept, with no connection open; and
\* while the client of an accepted connection neither sends nor closes, the
\* server stays in read_tcp with the file unchanged, whatever the timeout
\* (only a socket error can end that wait).
C17_TimeoutOnlyInAccept ==
    /\ [](conn.st = "open" => fault = "none")
    /\ [][(fault' = "AcceptTimeout" /\ fault # "AcceptTimeout") =>
             (pc = "accept" /\ conn.st # "open" /\ conn' = conn)]_vars
    /\ [][(pc = "read" /\ ~Readable /\ ClientIdle) =>
             /\ file' = file
             /\ pc' = "read" \/ (pc' = "fault" /\ fault' = "SocketError")]_vars

C17_Witness ==
    /\ pc = "read"
    /\ opts.timeout # 0
    /\ conn.sent = 0
    /\ ~conn.cclosed
    /\ retries = MaxRetries
    /\ file = conn.fileAtAccept
    /\ file = PriorFile

\* C18: with --single, a pending connection is accepted, and once bytes or
\* the end-of-stream are available to recv the server leaves read_tcp, dumps,
\* closes the connection and the script ends, unless a fault ends the process
\* first; at the end the file holds the payload and nothing listens.
C18_SingleShotTerminates ==
    /\ (opts.single /\ pc = "accept" /\ backlog > 0) ~> (pc = "read")
    /\ (opts.single /\ pc = "read" /\ Readable) ~> (pc = "exit" \/ fault # "none")
    /\ [](pc = "exit" =>
            (Handled /\ FileHolds(Last(payloads)) /\ ~listening /\ fault = "none"))

C18_Witness ==
    /\ opts.single
    /\ pc = "exit"
    /\ retries = MaxRetries
    /\ Len(data) = 1
    /\ FileHolds(data)

====
